---- MODULE Spec2Model ----
(***************************************************************************)
(* The colorization autoencoder notebook and the transformer notebook.     *)
(*                                                                         *)
(* A tensor is modelled by its shape (a sequence of naturals); the batches *)
(* handled by the collate functions are modelled with their pixel values.  *)
(* A forward pass is a tape: the sequence of the tensor operations it      *)
(* executes, each with the tape positions of its operands and the shape of *)
(* its result.  A forward pass that raises stops the tape at the failing   *)
(* operation and records the error.                                        *)
(*                                                                         *)
(* State: `module` is the object most recently constructed (or the error   *)
(* its constructor raised), `x` the argument of the last call on it and    *)
(* `y` the value that call returned.                                       *)
(*                                                                         *)
(* The main sequences of the notebooks (get_args, the Lightning module,    *)
(* the Trainer, fit, test, wandb.finish) have their own state: `pc` is the *)
(* position in the script, `notebook` the notebook that runs, `args`,      *)
(* `datamodule`, `lit` and `trainer` the objects the script has bound,     *)
(* `loop` the validation or test loop of the Trainer and `wandb` what the  *)
(* tracking service has received.                                          *)
(***************************************************************************)
EXTENDS Integers, Sequences, FiniteSets, TLC

VARIABLES module, x, y, pc, notebook, args, datamodule, lit, trainer, loop, wandb

mainVars == <<pc, notebook, args, datamodule, lit, trainer, loop, wandb>>

vars == <<module, x, y, pc, notebook, args, datamodule, lit, trainer, loop, wandb>>

(***************************************************************************)
(* Bounds of the inputs.                                                   *)
(***************************************************************************)
MaxB == 2

MaxKernel == 3

(* Image sides fed to the encoder; 32 is the CIFAR10 side. *)
Sides == {16, 31, 32, 34, 35}

NFilters == {32, 64, 256}

FeatureDims == {128, 256}

OutputSizes == {28, 30, 32, 64}

MaxDim == 4

MaxHeads == 3

MaxDepth == 2

MaxN == 3

MaxPatchDim == 2

(***************************************************************************)
(* Shapes and layer applications.                                          *)
(***************************************************************************)
RECURSIVE Prod(_)
Prod(s) == IF s = <<>> THEN 1 ELSE Head(s) * Prod(Tail(s))

Ok(shape) == [ok |-> TRUE, err |-> "", shape |-> shape]

Raise(e) == [ok |-> FALSE, err |-> e, shape |-> <<>>]

Same(shape) == Ok(shape)

Conv2d(cin, cout, k, s, p) ==
    [class |-> "Conv2d", in_channels |-> cin, out_channels |-> cout,
     kernel_size |-> k, stride |-> s, padding |-> p]

ConvTranspose2d(cin, cout, k, s, p) ==
    [class |-> "ConvTranspose2d", in_channels |-> cin, out_channels |-> cout,
     kernel_size |-> k, stride |-> s, padding |-> p]

Linear(fin, fout, b) ==
    [class |-> "Linear", in_features |-> fin, out_features |-> fout,
     bias |-> b,
     weight_init |-> "kaiming_uniform",
     bias_init |-> IF b THEN "uniform" ELSE "none"]

(* the output side rounded up instead of down *)
Conv2dOut_ceil(h, k, s, p) == ((h + 2 * p - (k - 1) - 1 + (s - 1)) \div s) + 1

Conv2dOut(h, k, s, p) == ((h + 2 * p - (k - 1) - 1) \div s) + 1

(* the output side without the padding term *)
ConvTranspose2dOut_nopad(h, k, s, p) == (h - 1) * s + 1 + (k - 1)

ConvTranspose2dOut(h, k, s, p) == (h - 1) * s - 2 * p + (k - 1) + 1

Conv2dApply(l, sh) ==
    IF Len(sh) # 4 THEN Raise("RuntimeError: expected 4D input")
    ELSE IF sh[2] # l.in_channels THEN Raise("RuntimeError: channels mismatch")
    ELSE IF sh[3] + 2 * l.padding < l.kernel_size
            \/ sh[4] + 2 * l.padding < l.kernel_size
         THEN Raise("RuntimeError: kernel size greater than input size")
    ELSE Ok(<<sh[1], l.out_channels,
              Conv2dOut(sh[3], l.kernel_size, l.stride, l.padding),
              Conv2dOut(sh[4], l.kernel_size, l.stride, l.padding)>>)

ConvTranspose2dApply(l, sh) ==
    IF Len(sh) # 4 THEN Raise("RuntimeError: expected 4D input")
    ELSE IF sh[2] # l.in_channels THEN Raise("RuntimeError: channels mismatch")
    ELSE IF ConvTranspose2dOut(sh[3], l.kernel_size, l.stride, l.padding) < 1
            \/ ConvTranspose2dOut(sh[4], l.kernel_size, l.stride, l.padding) < 1
         THEN Raise("RuntimeError: output size is too small")
    ELSE Ok(<<sh[1], l.out_channels,
              ConvTranspose2dOut(sh[3], l.kernel_size, l.stride, l.padding),
              ConvTranspose2dOut(sh[4], l.kernel_size, l.stride, l.padding)>>)

LinearApply(l, sh) ==
    IF sh = <<>> \/ sh[Len(sh)] # l.in_features
    THEN Raise("RuntimeError: mat1 and mat2 shapes cannot be multiplied")
    ELSE Ok([sh EXCEPT ![Len(sh)] = l.out_features])

(* rearrange(y, 'b c h w -> b (c h w)') *)
RearrangeFlatten(sh) ==
    IF Len(sh) # 4 THEN Raise("EinopsError: wrong number of dimensions")
    ELSE Ok(<<sh[1], sh[2] * sh[3] * sh[4]>>)

(* rearrange(y, 'b (c h w) -> b c h w', b=B, h=h, w=w) *)
RearrangeUnflatten(sh, b, h, w) ==
    IF Len(sh) # 2 THEN Raise("EinopsError: wrong number of dimensions")
    ELSE IF sh[1] # b \/ h * w = 0 \/ sh[2] % (h * w) # 0
         THEN Raise("EinopsError: shape mismatch")
    ELSE Ok(<<b, sh[2] \div (h * w), h, w>>)

LayerNorm(dim) == [class |-> "LayerNorm", normalized_shape |-> dim]

LayerNormApply(l, sh) ==
    IF sh = <<>> \/ sh[Len(sh)] # l.normalized_shape
    THEN Raise("RuntimeError: input does not end with normalized_shape")
    ELSE Ok(sh)

(* t.reshape(new) *)
Reshape(sh, new) ==
    IF Prod(sh) # Prod(new) THEN Raise("RuntimeError: shape is invalid for input size")
    ELSE Ok(new)

(* t.permute(dims): result axis i is input axis perm[i] (axes from 1) *)
Permute(sh, perm) == Ok([i \in 1..Len(perm) |-> sh[perm[i]]])

(* one of the tensors of t.unbind(0) *)
Unbind(sh) == Ok(Tail(sh))

(* t.transpose(i, j), axes from 1 *)
Transpose(sh, i, j) == Ok([sh EXCEPT ![i] = sh[j], ![j] = sh[i]])

(* a @ b on tensors of equal rank >= 2 *)
Matmul(a, b) ==
    LET n == Len(a)
    IN  IF Len(b) # n \/ n < 2 THEN Raise("RuntimeError: matmul rank mismatch")
        ELSE IF \E i \in 1..(n - 2) : a[i] # b[i]
             THEN Raise("RuntimeError: batch dimensions differ")
        ELSE IF a[n] # b[n - 1]
             THEN Raise("RuntimeError: mat1 and mat2 shapes cannot be multiplied")
        ELSE Ok([a EXCEPT ![n] = b[n]])

(* a + b *)
Add(a, b) ==
    IF a # b THEN Raise("RuntimeError: the size of tensor a must match the size of tensor b")
    ELSE Ok(a)

(* the first feature only, x[:, 0] *)
Flatten_first(sh) == Ok(<<sh[1], sh[Len(sh)]>>)

(* t.flatten(start_dim=1) *)
Flatten(sh) == Ok(<<sh[1], Prod(Tail(sh))>>)

(***************************************************************************)
(* Tapes.                                                                  *)
(***************************************************************************)
Entry(blk, mod, op, ins, arg, shape) ==
    [blk |-> blk, mod |-> mod, op |-> op, ins |-> ins, arg |-> arg,
     shape |-> shape]

NewTape(xshape) ==
    [called |-> TRUE, ok |-> TRUE, err |-> "",
     tape |-> <<Entry(0, "", "input", <<>>, 0, xshape)>>]

Out(t) == Len(t.tape)

Sh(t, id) == t.tape[id].shape

OutShape(t) == Sh(t, Out(t))

Emit(t, blk, mod, op, ins, arg, res) ==
    IF ~t.ok THEN t
    ELSE IF ~res.ok THEN [t EXCEPT !.ok = FALSE, !.err = res.err]
    ELSE [t EXCEPT !.tape = Append(@, Entry(blk, mod, op, ins, arg, res.shape))]

(* An operation applied to the value produced last. *)
Chain(t, blk, mod, op, arg, F(_)) ==
    Emit(t, blk, mod, op, <<Out(t)>>, arg, F(OutShape(t)))

(* F applied to the value of v, which is computed once. *)
Let(v, F(_)) == CHOOSE r \in {F(tv) : tv \in {v}} : TRUE

NotCalled == [called |-> FALSE, ok |-> FALSE, err |-> "", tape |-> <<>>]

(* The shapes produced by the operations named op, in tape order. *)
ShapesOf(t, op) ==
    LET idx == {i \in 1..Len(t.tape) : t.tape[i].op = op}
    IN  {t.tape[i].shape : i \in idx}

(* The operation names of a tape, in order. *)
Ops(t) == [i \in 1..Len(t.tape) |-> t.tape[i].op]

(***************************************************************************)
(* Constructor results.                                                    *)
(***************************************************************************)
NoModule == [class |-> "None"]

Built(m, created) == [ok |-> TRUE, err |-> "", created |-> created, mod |-> m]

Failed(e, created) == [ok |-> FALSE, err |-> e, created |-> created, mod |-> NoModule]

(***************************************************************************)
(* Autoencoder notebook: Encoder and Decoder.                              *)
(***************************************************************************)
EncoderFc1In == 2304

Encoder(n_features, kernel_size, n_filters, feature_dim) ==
    Built([class |-> "Encoder",
           n_features |-> n_features, kernel_size |-> kernel_size,
           n_filters |-> n_filters, feature_dim |-> feature_dim,
           conv1 |-> Conv2d(n_features, n_filters, kernel_size, 2, 0),
           conv2 |-> Conv2d(n_filters, n_filters * 2, kernel_size, 2, 0),
           conv3 |-> Conv2d(n_filters * 2, n_filters * 4, kernel_size, 2, 0),
           fc1 |-> Linear(EncoderFc1In, feature_dim, TRUE)],
          <<"conv1", "conv2", "conv3", "fc1">>)

EncoderForward(self, xs) ==
    Let(Chain(NewTape(xs), 0, "", "conv1", 0, LAMBDA s : Conv2dApply(self.conv1, s)), LAMBDA t1 :
    Let(Chain(t1, 0, "", "relu", 0, Same), LAMBDA t2 :
    Let(Chain(t2, 0, "", "conv2", 0, LAMBDA s : Conv2dApply(self.conv2, s)), LAMBDA t3 :
    Let(Chain(t3, 0, "", "relu", 0, Same), LAMBDA t4 :
    Let(Chain(t4, 0, "", "conv3", 0, LAMBDA s : Conv2dApply(self.conv3, s)), LAMBDA t5 :
    Let(Chain(t5, 0, "", "relu", 0, Same), LAMBDA t6 :
    Let(Chain(t6, 0, "", "rearrange", 0, RearrangeFlatten), LAMBDA t7 :
    Chain(t7, 0, "", "fc1", 0, LAMBDA s : LinearApply(self.fc1, s))
    )))))))

Decoder(kernel_size, n_filters, feature_dim, output_size, output_channels) ==
    LET init_size == output_size \div (2 * 2)
    IN  Built([class |-> "Decoder",
               kernel_size |-> kernel_size, n_filters |-> n_filters,
               feature_dim |-> feature_dim, output_size |-> output_size,
               output_channels |-> output_channels,
               init_size |-> init_size,
               fc1 |-> Linear(feature_dim, init_size * init_size * n_filters, TRUE),
               conv1 |-> ConvTranspose2d(n_filters, n_filters \div 2, kernel_size, 2, 1),
               conv2 |-> ConvTranspose2d(n_filters \div 2, n_filters \div 4, kernel_size, 2, 1),
               conv3 |-> ConvTranspose2d(n_filters \div 4, n_filters \div 4, kernel_size, 1, 1),
               conv4 |-> ConvTranspose2d(n_filters \div 4, output_channels, kernel_size + 1, 1, 0)],
              <<"fc1", "conv1", "conv2", "conv3", "conv4">>)

DecoderForward(self, xs) ==
    LET B == xs[1]
    IN
    Let(Chain(NewTape(xs), 0, "", "fc1", 0, LAMBDA s : LinearApply(self.fc1, s)), LAMBDA t1 :
    Let(Chain(t1, 0, "", "rearrange", 0,
              LAMBDA s : RearrangeUnflatten(s, B, self.init_size, self.init_size)), LAMBDA t2 :
    Let(Chain(t2, 0, "", "conv1", 0, LAMBDA s : ConvTranspose2dApply(self.conv1, s)), LAMBDA t3 :
    Let(Chain(t3, 0, "", "relu", 0, Same), LAMBDA t4 :
    Let(Chain(t4, 0, "", "conv2", 0, LAMBDA s : ConvTranspose2dApply(self.conv2, s)), LAMBDA t5 :
    Let(Chain(t5, 0, "", "relu", 0, Same), LAMBDA t6 :
    Let(Chain(t6, 0, "", "conv3", 0, LAMBDA s : ConvTranspose2dApply(self.conv3, s)), LAMBDA t7 :
    Let(Chain(t7, 0, "", "relu", 0, Same), LAMBDA t8 :
    Let(Chain(t8, 0, "", "conv4", 0, LAMBDA s : ConvTranspose2dApply(self.conv4, s)), LAMBDA t9 :
    Chain(t9, 0, "", "sigmoid", 0, Same)
    )))))))))

(***************************************************************************)
(* The data set: sample k is an image and its label.  The value of a pixel *)
(* encodes the sample and the position, so that every pixel of the data    *)
(* set is distinct.                                                        *)
(***************************************************************************)
NumSamples == 3

MaxC == 3

MaxSide == 2

CifarChannels == 3

CifarSide == 32

PatchNums == {1, 2, 3, 4, 8, 16, 32}

Pixel(k, c, r, w, C, H, W) ==
    (k - 1) * C * H * W + ((c - 1) * H + (r - 1)) * W + (w - 1)

Image(k, C, H, W) ==
    [c \in 1..C |-> [r \in 1..H |-> [w \in 1..W |-> Pixel(k, c, r, w, C, H, W)]]]

LabelOf(k) == (7 * k) % 10

Sample(k, C, H, W) == [img |-> Image(k, C, H, W), label |-> LabelOf(k)]

ImageShape(img) == <<Len(img), Len(img[1]), Len(img[1][1])>>

RECURSIVE SeqsUpTo(_, _)
SeqsUpTo(S, n) ==
    IF n = 0 THEN {<<>>}
    ELSE LET shorter == SeqsUpTo(S, n - 1)
         IN  shorter \cup {Append(q, e) : q \in {r \in shorter : Len(r) = n - 1}, e \in S}

RECURSIVE Sum(_)
Sum(s) == IF s = <<>> THEN 0 ELSE Head(s) + Sum(Tail(s))

(* the sum in place of the mean *)
Mean_sum(s) == [num |-> Sum(s), den |-> 1]

(* The mean of a sequence of values, as the fraction num/den. *)
Mean(s) == [num |-> Sum(s), den |-> Len(s)]

(* torch.stack(x, dim=0): the images in order; they must have one shape. *)
Stack(imgs) ==
    IF imgs = <<>> THEN [ok |-> FALSE, err |-> "RuntimeError: stack expects a non-empty list", t |-> <<>>]
    ELSE IF \E i \in 1..Len(imgs) : ImageShape(imgs[i]) # ImageShape(imgs[1])
         THEN [ok |-> FALSE, err |-> "RuntimeError: stack expects each tensor to be equal size", t |-> <<>>]
    ELSE [ok |-> TRUE, err |-> "", t |-> imgs]

(* reduce(x, "b c h w -> b 1 h w", 'mean') *)
ReduceMean(t) ==
    [b \in 1..Len(t) |->
        [o \in 1..1 |->
            [r \in 1..Len(t[b][1]) |->
                [w \in 1..Len(t[b][1][1]) |->
                    Mean([c \in 1..Len(t[b]) |-> t[b][c][r][w]])]]]]

gray_collate_fn(batch) ==
    IF batch = <<>>
    THEN [called |-> TRUE, fn |-> "gray_collate_fn", ok |-> FALSE,
          err |-> "ValueError: not enough values to unpack", xn |-> <<>>, x |-> <<>>]
    ELSE LET imgs == [i \in 1..Len(batch) |-> batch[i].img]
             st   == Stack(imgs)
         IN  IF ~st.ok
             THEN [called |-> TRUE, fn |-> "gray_collate_fn", ok |-> FALSE,
                   err |-> st.err, xn |-> <<>>, x |-> <<>>]
             ELSE [called |-> TRUE, fn |-> "gray_collate_fn", ok |-> TRUE,
                   err |-> "", xn |-> ReduceMean(st.t), x |-> st.t]

(***************************************************************************)
(* Transformer notebook: the data module and its collate function.         *)
(***************************************************************************)
LitCifar10(batch_size, num_workers, patch_num) ==
    Built([class |-> "LitCifar10", batch_size |-> batch_size,
           patch_num |-> patch_num, num_workers |-> num_workers], <<>>)

(* Output position (s, d) of a sample, for p patches per side of h x w    *)
(* pixels, takes the pixel of this channel, row and column.               *)
PatchChannel(d, h, w) == ((d - 1) \div (h * w)) + 1

(* patch rows laid out with stride 1 instead of h *)
PatchRow_overlap(s, d, p, h, w) ==
    ((s - 1) \div p) + (((d - 1) % (h * w)) \div w) + 1

PatchRow(s, d, p, h, w) ==
    ((s - 1) \div p) * h + (((d - 1) % (h * w)) \div w) + 1

PatchCol(s, d, p, h, w) == ((s - 1) % p) * w + ((d - 1) % w) + 1

(* rearrange(x, 'b c (p1 h) (p2 w) -> b (p1 p2) (c h w)', p1=p, p2=p) *)
RearrangePatches(t, p) ==
    LET C == Len(t[1])
        H == Len(t[1][1])
        W == Len(t[1][1][1])
    IN  IF p = 0 \/ H % p # 0 \/ W % p # 0
        THEN [ok |-> FALSE, err |-> "EinopsError: shape mismatch", t |-> <<>>]
        ELSE LET h == H \div p
                 w == W \div p
             IN  [ok |-> TRUE, err |-> "",
                  t |-> [b \in 1..Len(t) |->
                          [s \in 1..(p * p) |->
                            [d \in 1..(C * h * w) |->
                              t[b][PatchChannel(d, h, w)]
                                  [PatchRow(s, d, p, h, w)]
                                  [PatchCol(s, d, p, h, w)]]]]]

collate_fn(self, batch) ==
    IF batch = <<>>
    THEN [called |-> TRUE, ok |-> FALSE,
          err |-> "ValueError: not enough values to unpack", x |-> <<>>, y |-> <<>>]
    ELSE LET imgs   == [i \in 1..Len(batch) |-> batch[i].img]
             labels == [i \in 1..Len(batch) |-> batch[i].label]
             st     == Stack(imgs)
             re     == RearrangePatches(st.t, self.patch_num)
         IN  IF ~st.ok
             THEN [called |-> TRUE, ok |-> FALSE, err |-> st.err, x |-> <<>>, y |-> <<>>]
             ELSE IF ~re.ok
             THEN [called |-> TRUE, ok |-> FALSE, err |-> re.err, x |-> <<>>, y |-> <<>>]
             ELSE [called |-> TRUE, ok |-> TRUE, err |-> "", x |-> re.t, y |-> labels]

(***************************************************************************)
(* Transformer notebook: Attention, Mlp, Block, Transformer.               *)
(***************************************************************************)
(* the constructor without its divisibility assertion *)
Attention_noassert(dim, num_heads, qkv_bias) ==
    IF num_heads = 0
    THEN Failed("ZeroDivisionError: integer division or modulo by zero", <<>>)
    ELSE LET head_dim == dim \div num_heads
         IN  IF head_dim = 0
             THEN Failed("ZeroDivisionError: 0.0 cannot be raised to a negative power", <<>>)
             ELSE Built([class |-> "Attention",
                         num_heads |-> num_heads,
                         scale |-> [base |-> head_dim, exponent |-> "-0.5"],
                         qkv |-> Linear(dim, dim * 3, qkv_bias),
                         proj |-> Linear(dim, dim, TRUE)],
                        <<"qkv", "proj">>)

Attention(dim, num_heads, qkv_bias) ==
    IF num_heads = 0
    THEN Failed("ZeroDivisionError: integer division or modulo by zero", <<>>)
    ELSE IF dim % num_heads # 0
    THEN Failed("AssertionError: dim should be divisible by num_heads", <<>>)
    ELSE LET head_dim == dim \div num_heads
         IN  IF head_dim = 0
             THEN Failed("ZeroDivisionError: 0.0 cannot be raised to a negative power", <<>>)
             ELSE Built([class |-> "Attention",
                         num_heads |-> num_heads,
                         scale |-> [base |-> head_dim, exponent |-> "-0.5"],
                         qkv |-> Linear(dim, dim * 3, qkv_bias),
                         proj |-> Linear(dim, dim, TRUE)],
                        <<"qkv", "proj">>)

(* the sequence and head axes left in place *)
QkvPermutation_unswapped == <<3, 1, 2, 4, 5>>

(* permute(2, 0, 3, 1, 4), axes from 1 *)
QkvPermutation == <<3, 1, 4, 2, 5>>

(* Attention.forward on the value at tape position xid, inside block blk *)
AttentionForward(self, t, blk, xid) ==
    LET xs == Sh(t, xid)
        B  == xs[1]
        N  == xs[2]
        C  == xs[3]
    IN
    Let(Emit(t, blk, "attn", "qkv", <<xid>>, 0, LinearApply(self.qkv, xs)), LAMBDA t1 :
    Let(Chain(t1, blk, "attn", "reshape", 0,
              LAMBDA s : Reshape(s, <<B, N, 3, self.num_heads, C \div self.num_heads>>)), LAMBDA t2 :
    Let(Chain(t2, blk, "attn", "permute", 0, LAMBDA s : Permute(s, QkvPermutation)), LAMBDA t3 :
    LET qkv == Out(t3)
        q   == qkv + 1
        k   == qkv + 2
        v   == qkv + 3
    IN
    Let(Emit(t3, blk, "attn", "q", <<qkv>>, 0, Unbind(Sh(t3, qkv))), LAMBDA t4 :
    Let(Emit(t4, blk, "attn", "k", <<qkv>>, 1, Unbind(Sh(t3, qkv))), LAMBDA t5 :
    Let(Emit(t5, blk, "attn", "v", <<qkv>>, 2, Unbind(Sh(t3, qkv))), LAMBDA t6 :
    Let(Emit(t6, blk, "attn", "transpose", <<k>>, 0, Transpose(Sh(t6, k), 3, 4)), LAMBDA t7 :
    Let(Emit(t7, blk, "attn", "matmul", <<q, Out(t7)>>, 0,
             Matmul(Sh(t7, q), OutShape(t7))), LAMBDA t8 :
    Let(Chain(t8, blk, "attn", "scale", self.scale.base, Same), LAMBDA t9 :
    Let(Chain(t9, blk, "attn", "softmax", -1, Same), LAMBDA t10 :
    Let(Emit(t10, blk, "attn", "matmul", <<Out(t10), v>>, 0,
             Matmul(OutShape(t10), Sh(t10, v))), LAMBDA t11 :
    Let(Chain(t11, blk, "attn", "transpose", 0, LAMBDA s : Transpose(s, 2, 3)), LAMBDA t12 :
    Let(Chain(t12, blk, "attn", "reshape", 0, LAMBDA s : Reshape(s, <<B, N, C>>)), LAMBDA t13 :
    Chain(t13, blk, "attn", "proj", 0, LAMBDA s : LinearApply(self.proj, s))
    )))))))))))))

(* hidden_features and out_features of 0 stand for a falsy argument *)
Mlp(in_features, hidden_features, out_features) ==
    LET out    == IF out_features = 0 THEN in_features ELSE out_features
        hidden == IF hidden_features = 0 THEN in_features ELSE hidden_features
    IN  Built([class |-> "Mlp",
               fc1 |-> Linear(in_features, hidden, TRUE),
               act |-> "GELU",
               fc2 |-> Linear(hidden, out, TRUE)],
              <<"fc1", "act", "fc2">>)

MlpForward(self, t, blk, xid) ==
    Let(Emit(t, blk, "mlp", "fc1", <<xid>>, 0, LinearApply(self.fc1, Sh(t, xid))), LAMBDA t1 :
    Let(Chain(t1, blk, "mlp", "act", 0, Same), LAMBDA t2 :
    Chain(t2, blk, "mlp", "fc2", 0, LAMBDA s : LinearApply(self.fc2, s))
    ))

Block(dim, num_heads, mlp_ratio, qkv_bias) ==
    LET norm1 == LayerNorm(dim)
        attn  == Attention(dim, num_heads, qkv_bias)
        norm2 == LayerNorm(dim)
        mlp   == Mlp(dim, dim * mlp_ratio, 0)
    IN  IF ~attn.ok THEN Failed(attn.err, <<"norm1">> \o attn.created)
        ELSE Built([class |-> "Block", norm1 |-> norm1, attn |-> attn.mod,
                    norm2 |-> norm2, mlp |-> mlp.mod],
                   <<"norm1">> \o attn.created \o <<"norm2">> \o mlp.created)

(* both residual connections taken from the block input *)
BlockForward_residual(self, t, blk, xid) ==
    Let(Emit(t, blk, "", "norm1", <<xid>>, 0, LayerNormApply(self.norm1, Sh(t, xid))), LAMBDA t1 :
    Let(AttentionForward(self.attn, t1, blk, Out(t1)), LAMBDA t2 :
    Let(Emit(t2, blk, "", "add", <<xid, Out(t2)>>, 0, Add(Sh(t2, xid), OutShape(t2))), LAMBDA t3 :
    LET x1 == Out(t3)
    IN
    Let(Emit(t3, blk, "", "norm2", <<x1>>, 0, LayerNormApply(self.norm2, Sh(t3, x1))), LAMBDA t4 :
    Let(MlpForward(self.mlp, t4, blk, Out(t4)), LAMBDA t5 :
    Emit(t5, blk, "", "add", <<xid, Out(t5)>>, 0, Add(Sh(t5, xid), OutShape(t5)))
    )))))

BlockForward(self, t, blk, xid) ==
    Let(Emit(t, blk, "", "norm1", <<xid>>, 0, LayerNormApply(self.norm1, Sh(t, xid))), LAMBDA t1 :
    Let(AttentionForward(self.attn, t1, blk, Out(t1)), LAMBDA t2 :
    Let(Emit(t2, blk, "", "add", <<xid, Out(t2)>>, 0, Add(Sh(t2, xid), OutShape(t2))), LAMBDA t3 :
    LET x1 == Out(t3)
    IN
    Let(Emit(t3, blk, "", "norm2", <<x1>>, 0, LayerNormApply(self.norm2, Sh(t3, x1))), LAMBDA t4 :
    Let(MlpForward(self.mlp, t4, blk, Out(t4)), LAMBDA t5 :
    Emit(t5, blk, "", "add", <<x1, Out(t5)>>, 0, Add(Sh(t5, x1), OutShape(t5)))
    )))))

RECURSIVE Repeat(_, _)
Repeat(q, n) == IF n <= 0 THEN <<>> ELSE q \o Repeat(q, n - 1)

(* the blocks are built in list order; the first failure propagates *)
Transformer(dim, num_heads, num_blocks, mlp_ratio, qkv_bias) ==
    LET b == Block(dim, num_heads, mlp_ratio, qkv_bias)
    IN  IF num_blocks <= 0 THEN Built([class |-> "Transformer", blocks |-> <<>>], <<>>)
        ELSE IF ~b.ok THEN Failed(b.err, b.created)
        ELSE Built([class |-> "Transformer",
                    blocks |-> [i \in 1..num_blocks |-> b.mod]],
                   Repeat(b.created, num_blocks))

(* the loop stopping one block early *)
BlockOrder_short(self) == [i \in 1..(Len(self.blocks) - 1) |-> i]

(* the blocks of the loop `for block in self.blocks`, by index *)
BlockOrder(self) == [i \in 1..Len(self.blocks) |-> i]

RECURSIVE ApplyBlocks(_, _, _, _)
ApplyBlocks(self, order, t, xid) ==
    IF order = <<>> \/ ~t.ok THEN t
    ELSE Let(BlockForward(self.blocks[Head(order)], t, Head(order), xid), LAMBDA t1 :
         ApplyBlocks(self, Tail(order), t1, Out(t1)))

TransformerForward(self, t, xid) == ApplyBlocks(self, BlockOrder(self), t, xid)

(***************************************************************************)
(* Transformer notebook: init_weights_vit_timm and LitTransformer.         *)
(***************************************************************************)
HasAttr(m, name) == name \in DOMAIN m

init_weights_vit_timm(m) ==
    IF m.class = "Linear"
    THEN [m EXCEPT !.weight_init = "trunc_normal_std_0.02",
                   !.bias_init = IF m.bias THEN "zeros" ELSE @]
    ELSE IF HasAttr(m, "init_weights") THEN m.init_weights
    ELSE m

reset_parameters(self) == init_weights_vit_timm(self)

NumClasses == 10

LitTransformer(num_classes, max_epochs, depth, embed_dim, head, patch_dim, seqlen) ==
    LET encoder == Transformer(embed_dim, head, depth, 4, FALSE)
    IN  IF ~encoder.ok THEN Failed(encoder.err, encoder.created)
        ELSE Built(reset_parameters(
                       [class |-> "LitTransformer",
                        hparams |-> [num_classes |-> num_classes, max_epochs |-> max_epochs,
                                     depth |-> depth, embed_dim |-> embed_dim,
                                     head |-> head, patch_dim |-> patch_dim,
                                     seqlen |-> seqlen],
                        encoder |-> encoder.mod,
                        embed |-> Linear(patch_dim, embed_dim, TRUE),
                        fc |-> Linear(seqlen * embed_dim, num_classes, TRUE),
                        loss |-> "CrossEntropyLoss"]),
                   encoder.created \o <<"embed", "fc", "loss">>)

LitTransformerForward(self, xs) ==
    Let(Chain(NewTape(xs), 0, "", "embed", 0, LAMBDA s : LinearApply(self.embed, s)), LAMBDA t1 :
    Let(TransformerForward(self.encoder, t1, Out(t1)), LAMBDA t2 :
    Let(Chain(t2, 0, "", "flatten", 0, Flatten), LAMBDA t3 :
    Chain(t3, 0, "", "fc", 0, LAMBDA s : LinearApply(self.fc, s))
    )))

(* every nn.Linear of a LitTransformer *)
Linears(m) ==
    {m.embed, m.fc}
      \cup UNION {{m.encoder.blocks[i].attn.qkv, m.encoder.blocks[i].attn.proj,
                   m.encoder.blocks[i].mlp.fc1, m.encoder.blocks[i].mlp.fc2} :
                  i \in 1..Len(m.encoder.blocks)}

(***************************************************************************)
(* Actions.  A run constructs one object and calls it once, as the cells   *)
(* of the notebooks do; gray_collate_fn is a plain function and is called  *)
(* without an object.                                                      *)
(***************************************************************************)
Bind(cls, a, r) ==
    [cls |-> cls, args |-> a, ok |-> r.ok, err |-> r.err,
     created |-> r.created, mod |-> r.mod]

Unbound == Bind("", <<>>, Failed("", <<>>))

NewEncoder ==
    /\ module = Unbound
    /\ ~y.called
    /\ \E nf \in {1, 3}, k \in 1..MaxKernel, f \in NFilters, d \in FeatureDims :
        module' = Bind("Encoder",
                       [n_features |-> nf, kernel_size |-> k,
                        n_filters |-> f, feature_dim |-> d],
                       Encoder(nf, k, f, d))
    /\ UNCHANGED <<x, y, mainVars>>

CallEncoder ==
    /\ module.ok
    /\ module.mod.class = "Encoder"
    /\ ~y.called
    /\ \E B \in 1..MaxB, c \in {1, 3}, s \in Sides :
        /\ x' = <<B, c, s, s>>
        /\ y' = EncoderForward(module.mod, <<B, c, s, s>>)
    /\ UNCHANGED <<module, mainVars>>

NewDecoder ==
    /\ module = Unbound
    /\ ~y.called
    /\ \E k \in 1..MaxKernel, f \in NFilters, d \in FeatureDims,
          o \in OutputSizes, c \in {1, 3} :
        module' = Bind("Decoder",
                       [kernel_size |-> k, n_filters |-> f, feature_dim |-> d,
                        output_size |-> o, output_channels |-> c],
                       Decoder(k, f, d, o, c))
    /\ UNCHANGED <<x, y, mainVars>>

CallDecoder ==
    /\ module.ok
    /\ module.mod.class = "Decoder"
    /\ ~y.called
    /\ \E B \in 1..MaxB, d \in FeatureDims :
        /\ x' = <<B, d>>
        /\ y' = DecoderForward(module.mod, <<B, d>>)
    /\ UNCHANGED <<module, mainVars>>

CallGrayCollateFn ==
    /\ module = Unbound
    /\ ~y.called
    /\ \E C \in 1..MaxC, H \in 1..MaxSide, W \in 1..MaxSide, odd \in BOOLEAN,
          ks \in SeqsUpTo(1..NumSamples, MaxB) :
        LET batch == [i \in 1..Len(ks) |->
                        Sample(ks[i], C,
                               IF odd /\ i = Len(ks) THEN H + 1 ELSE H, W)]
        IN  /\ x' = batch
            /\ y' = gray_collate_fn(batch)
    /\ UNCHANGED <<module, mainVars>>

NewLitCifar10 ==
    /\ module = Unbound
    /\ ~y.called
    /\ \E p \in PatchNums :
        module' = Bind("LitCifar10",
                       [batch_size |-> 64, num_workers |-> 4, patch_num |-> p],
                       LitCifar10(64, 4, p))
    /\ UNCHANGED <<x, y, mainVars>>

CallCollateFn ==
    /\ module.ok
    /\ module.mod.class = "LitCifar10"
    /\ ~y.called
    /\ \E ks \in SeqsUpTo(1..NumSamples, MaxB) :
        LET batch == [i \in 1..Len(ks) |->
                        Sample(ks[i], CifarChannels, CifarSide, CifarSide)]
        IN  /\ x' = batch
            /\ y' = collate_fn(module.mod, batch)
    /\ UNCHANGED <<module, mainVars>>

NewAttention ==
    /\ module = Unbound
    /\ ~y.called
    /\ \E d \in 1..MaxDim, h \in 0..MaxHeads, b \in BOOLEAN :
        module' = Bind("Attention", [dim |-> d, num_heads |-> h, qkv_bias |-> b],
                       Attention(d, h, b))
    /\ UNCHANGED <<x, y, mainVars>>

CallAttention ==
    /\ module.ok
    /\ module.mod.class = "Attention"
    /\ ~y.called
    /\ \E B \in 1..MaxB, N \in 1..MaxN, C \in 1..MaxDim :
        /\ x' = <<B, N, C>>
        /\ y' = AttentionForward(module.mod, NewTape(<<B, N, C>>), 0, 1)
    /\ UNCHANGED <<module, mainVars>>

NewBlock ==
    /\ module = Unbound
    /\ ~y.called
    /\ \E d \in 1..MaxDim, h \in 0..MaxHeads :
        module' = Bind("Block", [dim |-> d, num_heads |-> h],
                       Block(d, h, 4, FALSE))
    /\ UNCHANGED <<x, y, mainVars>>

CallBlock ==
    /\ module.ok
    /\ module.mod.class = "Block"
    /\ ~y.called
    /\ \E B \in 1..MaxB, N \in 1..MaxN, C \in 1..MaxDim :
        /\ x' = <<B, N, C>>
        /\ y' = BlockForward(module.mod, NewTape(<<B, N, C>>), 1, 1)
    /\ UNCHANGED <<module, mainVars>>

NewTransformer ==
    /\ module = Unbound
    /\ ~y.called
    /\ \E d \in 1..MaxDim, h \in 0..MaxHeads, n \in 0..MaxDepth :
        module' = Bind("Transformer", [dim |-> d, num_heads |-> h, num_blocks |-> n],
                       Transformer(d, h, n, 4, FALSE))
    /\ UNCHANGED <<x, y, mainVars>>

CallTransformer ==
    /\ module.ok
    /\ module.mod.class = "Transformer"
    /\ ~y.called
    /\ \E B \in 1..MaxB, N \in 1..MaxN, C \in 1..MaxDim :
        /\ x' = <<B, N, C>>
        /\ y' = TransformerForward(module.mod, NewTape(<<B, N, C>>), 1)
    /\ UNCHANGED <<module, mainVars>>

NewLitTransformer ==
    /\ module = Unbound
    /\ ~y.called
    /\ \E e \in 1..MaxDim, h \in 0..MaxHeads, n \in 0..MaxDepth,
          pd \in 1..MaxPatchDim, sl \in 1..MaxN :
        module' = Bind("LitTransformer",
                       [num_classes |-> NumClasses, depth |-> n, embed_dim |-> e,
                        head |-> h, patch_dim |-> pd, seqlen |-> sl],
                       LitTransformer(NumClasses, 30, n, e, h, pd, sl))
    /\ UNCHANGED <<x, y, mainVars>>

CallLitTransformer ==
    /\ module.ok
    /\ module.mod.class = "LitTransformer"
    /\ ~y.called
    /\ \E B \in 1..MaxB, N \in 1..MaxN, P \in 1..MaxPatchDim :
        /\ x' = <<B, N, P>>
        /\ y' = LitTransformerForward(module.mod, <<B, N, P>>)
    /\ UNCHANGED <<module, mainVars>>

Init ==
    /\ module = Unbound
    /\ x = <<>>
    /\ y = NotCalled
    /\ pc = "start"
    /\ notebook = "None"
    /\ args = NoModule
    /\ datamodule = NoModule
    /\ lit = NoModule
    /\ trainer = NoModule
    /\ loop = [stage |-> "idle", train_loader |-> NoModule, loader |-> NoModule,
               order |-> <<>>,
               batch_idx |-> 0, outputs |-> <<>>, train_outputs |-> <<>>]
    /\ wandb = [tables |-> <<>>, finished |-> FALSE]

Next ==
    \/ NewEncoder
    \/ CallEncoder
    \/ NewDecoder
    \/ CallDecoder
    \/ CallGrayCollateFn
    \/ NewLitCifar10
    \/ CallCollateFn
    \/ NewAttention
    \/ CallAttention
    \/ NewBlock
    \/ CallBlock
    \/ NewTransformer
    \/ CallTransformer
    \/ NewLitTransformer
    \/ CallLitTransformer

Spec == Init /\ [][Next]_vars

(***************************************************************************)
(* Properties of the autoencoder notebook.                                 *)
(***************************************************************************)
EncoderCalled == module.ok /\ module.mod.class = "Encoder" /\ y.called

(* An Encoder built with the default n_features, kernel_size and n_filters, *)
(* called on a [B,1,32,32] input.                                           *)
DefaultEncoderCase ==
    /\ EncoderCalled
    /\ module.mod.n_features = 1
    /\ module.mod.kernel_size = 3
    /\ module.mod.n_filters = 64
    /\ x[1] >= 1 /\ x[2] = 1 /\ x[3] = CifarSide /\ x[4] = CifarSide

(* C1: the default Encoder maps [B,1,32,32] to [B,feature_dim]; the three   *)
(* stride-2 convolutions take the side 32 -> 15 -> 7 -> 3 and the flattened *)
(* map has 256*3*3 = 2304 elements, the input size of fc1.                  *)
C1_EncoderShape ==
    DefaultEncoderCase =>
        /\ y.ok
        /\ OutShape(y) = <<x[1], module.mod.feature_dim>>
        /\ ShapesOf(y, "conv1") = {<<x[1], 64, 15, 15>>}
        /\ ShapesOf(y, "conv2") = {<<x[1], 128, 7, 7>>}
        /\ ShapesOf(y, "conv3") = {<<x[1], 256, 3, 3>>}
        /\ ShapesOf(y, "rearrange") = {<<x[1], 2304>>}
        /\ module.mod.fc1.in_features = 256 * 3 * 3

C1_Witness == DefaultEncoderCase /\ y.ok /\ x[1] = 2 /\ Ops(y)[Out(y)] = "fc1"

DecoderCalled == module.ok /\ module.mod.class = "Decoder" /\ y.called

(* A Decoder built with the default kernel_size, n_filters, output_size and *)
(* output_channels, called on a [B,feature_dim] latent tensor.              *)
DefaultDecoderCase ==
    /\ DecoderCalled
    /\ module.mod.kernel_size = 3
    /\ module.mod.n_filters = 256
    /\ module.mod.output_size = 32
    /\ module.mod.output_channels = 3
    /\ x[1] >= 1 /\ x[2] = module.mod.feature_dim

(* C2: the default Decoder maps [B,feature_dim] to [B,3,32,32]; fc1 and the *)
(* rearrange give [B,256,8,8] and the transposed convolutions take the side *)
(* 8 -> 15 -> 29 -> 29 -> 32, the desired output_size.                      *)
C2_DecoderShape ==
    DefaultDecoderCase =>
        /\ y.ok
        /\ ShapesOf(y, "rearrange") = {<<x[1], 256, 8, 8>>}
        /\ ShapesOf(y, "conv1") = {<<x[1], 128, 15, 15>>}
        /\ ShapesOf(y, "conv2") = {<<x[1], 64, 29, 29>>}
        /\ ShapesOf(y, "conv3") = {<<x[1], 64, 29, 29>>}
        /\ ShapesOf(y, "conv4") = {<<x[1], 3, 32, 32>>}
        /\ OutShape(y) = <<x[1], 3, module.mod.output_size, module.mod.output_size>>

C2_Witness == DefaultDecoderCase /\ y.ok /\ x[1] = 2 /\ Ops(y)[Out(y)] = "sigmoid"

GrayCalled == module = Unbound /\ y.called

(* A batch of B >= 1 samples whose images have one shape [C,H,W]. *)
UniformBatch ==
    /\ x # <<>>
    /\ \A i \in 1..Len(x) : ImageShape(x[i].img) = ImageShape(x[1].img)

(* C3: gray_collate_fn returns (xn, x): x is the stack of the images in     *)
(* input order with unchanged values, xn has shape [B,1,H,W] and each of    *)
(* its pixels is the mean over the channels of the same pixel of x; the     *)
(* labels play no part.                                                     *)
C3_GrayCollate ==
    (GrayCalled /\ UniformBatch) =>
        LET B == Len(x)
            C == ImageShape(x[1].img)[1]
            H == ImageShape(x[1].img)[2]
            W == ImageShape(x[1].img)[3]
        IN  /\ y.ok
            /\ Len(y.x) = B
            /\ \A b \in 1..B : y.x[b] = x[b].img
            /\ Len(y.xn) = B
            /\ \A b \in 1..B :
                /\ Len(y.xn[b]) = 1
                /\ Len(y.xn[b][1]) = H
                /\ \A r \in 1..H :
                    /\ Len(y.xn[b][1][r]) = W
                    /\ \A w \in 1..W :
                        /\ y.xn[b][1][r][w].den > 0
                        /\ y.xn[b][1][r][w].num * C
                             = y.xn[b][1][r][w].den
                                 * Sum([c \in 1..C |-> x[b].img[c][r][w]])

C3_Witness ==
    /\ GrayCalled /\ UniformBatch /\ y.ok
    /\ Len(x) = 2
    /\ ImageShape(x[1].img) = <<3, 2, 2>>
    /\ x[1].label # x[2].label

(***************************************************************************)
(* Properties of the transformer notebook.                                 *)
(***************************************************************************)
CollateCalled == module.ok /\ module.mod.class = "LitCifar10" /\ y.called

PixelsOf(img) ==
    {img[c][r][w] : c \in 1..Len(img), r \in 1..Len(img[1]), w \in 1..Len(img[1][1])}

(* C9: for B samples of shape [3,32,32] and a patch_num p dividing 32,      *)
(* collate_fn returns x of shape [B, p*p, 3*(32/p)*(32/p)] in which every   *)
(* pixel of every image appears exactly once, and y, the labels in input    *)
(* order; patch_num = 8 gives patch size 4 and sequence length 64.          *)
C9_CollatePatches ==
    (CollateCalled /\ x # <<>> /\ CifarSide % module.mod.patch_num = 0) =>
        LET B  == Len(x)
            p  == module.mod.patch_num
            ps == CifarSide \div p
        IN  /\ y.ok
            /\ Len(y.x) = B
            /\ \A b \in 1..B :
                /\ Len(y.x[b]) = p * p
                /\ \A s \in 1..(p * p) : Len(y.x[b][s]) = 3 * ps * ps
                /\ (p * p) * (3 * ps * ps) = 3 * 32 * 32
                /\ {y.x[b][s][d] : s \in 1..(p * p), d \in 1..(3 * ps * ps)}
                     = PixelsOf(x[b].img)
                /\ Cardinality(PixelsOf(x[b].img)) = 3 * 32 * 32
            /\ y.y = [b \in 1..B |-> x[b].label]
            /\ (p = 8 => ps = 4 /\ Len(y.x[1]) = 64)

C9_Witness ==
    /\ CollateCalled /\ y.ok
    /\ module.mod.patch_num = 8
    /\ Len(x) = 2
    /\ x[1].label # x[2].label
    /\ Len(y.x[1]) = 64

(* The tape positions of the operations named op of sub-module mod of block blk. *)
Pos(t, blk, mod, op) ==
    {i \in 1..Len(t.tape) :
        t.tape[i].blk = blk /\ t.tape[i].mod = mod /\ t.tape[i].op = op}

(* The tape positions of all operations of block blk. *)
BlockPos(t, blk) == {i \in 1..Len(t.tape) : t.tape[i].blk = blk}

Min(S) == CHOOSE e \in S : \A f \in S : e <= f

Max(S) == CHOOSE e \in S : \A f \in S : e >= f

AttentionCalled == module.ok /\ module.cls = "Attention" /\ y.called

(* C4: Attention.forward on [B,N,C] with C = dim runs, in this order, one   *)
(* projection to Q, K, V split into heads of size C/num_heads, Q times K    *)
(* transposed giving [B,num_heads,N,N] scores, the scaling by               *)
(* head_dim^-0.5, the softmax over the last axis, the product with V and    *)
(* the output projection; the result has the shape of the input.            *)
C4_AttentionForward ==
    (AttentionCalled /\ x[3] = module.args.dim) =>
        LET B  == x[1]
            N  == x[2]
            C  == x[3]
            H  == module.mod.num_heads
            hd == C \div H
            t  == y.tape
        IN  /\ y.ok
            /\ Ops(y) = <<"input", "qkv", "reshape", "permute", "q", "k", "v",
                          "transpose", "matmul", "scale", "softmax", "matmul",
                          "transpose", "reshape", "proj">>
            /\ t[2].ins = <<1>> /\ t[2].shape = <<B, N, 3 * C>>
            /\ \A i \in {5, 6, 7} : t[i].ins = <<4>> /\ t[i].shape = <<B, H, N, hd>>
            /\ hd * H = C
            /\ t[8].ins = <<6>> /\ t[8].shape = <<B, H, hd, N>>
            /\ t[9].ins = <<5, 8>> /\ t[9].shape = <<B, H, N, N>>
            /\ t[10].ins = <<9>> /\ t[10].arg = hd
            /\ module.mod.scale = [base |-> hd, exponent |-> "-0.5"]
            /\ t[11].ins = <<10>> /\ t[11].arg = -1 /\ t[11].shape = <<B, H, N, N>>
            /\ t[12].ins = <<11, 7>> /\ t[12].shape = <<B, H, N, hd>>
            /\ t[15].ins = <<14>>
            /\ OutShape(y) = x

C4_Witness ==
    /\ AttentionCalled /\ y.ok
    /\ x = <<2, 3, 4>>
    /\ module.mod.num_heads = 2
    /\ Ops(y)[Out(y)] = "proj"

NotDivisible(d, h) == h # 0 /\ d % h # 0

AssertMsg == "AssertionError: dim should be divisible by num_heads"

AssertionRaised == ~module.ok /\ module.err = AssertMsg

C5_Attention ==
    /\ (module.cls = "Attention" /\ NotDivisible(module.args.dim, module.args.num_heads))
         => (AssertionRaised /\ module.created = <<>>)
    /\ (module.cls = "Attention" /\ module.ok)
         => module.mod.scale.base * module.mod.num_heads = module.args.dim

C5_Enclosing ==
    /\ (module.cls = "Block" /\ NotDivisible(module.args.dim, module.args.num_heads))
         => AssertionRaised
    /\ (module.cls = "Transformer" /\ module.args.num_blocks >= 1
          /\ NotDivisible(module.args.dim, module.args.num_heads))
         => AssertionRaised

(* C5 as stated: Attention(dim, num_heads) raises the divisibility          *)
(* assertion before creating a layer whenever dim % num_heads != 0, an      *)
(* accepted pair has head_dim * num_heads = dim, and Block, Transformer     *)
(* (num_blocks >= 1) and every LitTransformer fail in the same way.         *)
C5_Original ==
    /\ C5_Attention
    /\ C5_Enclosing
    /\ (module.cls = "LitTransformer"
          /\ NotDivisible(module.args.embed_dim, module.args.head))
         => AssertionRaised

(* C5 amended: as C5, with the failure of LitTransformer claimed only for   *)
(* depth >= 1, since a LitTransformer of depth 0 constructs no Attention.   *)
C5_DivisibilityAssert ==
    /\ C5_Attention
    /\ C5_Enclosing
    /\ (module.cls = "LitTransformer" /\ module.args.depth >= 1
          /\ NotDivisible(module.args.embed_dim, module.args.head))
         => AssertionRaised

C5_Witness ==
    /\ module.cls = "LitTransformer"
    /\ module.args.depth >= 1
    /\ NotDivisible(module.args.embed_dim, module.args.head)
    /\ AssertionRaised

BlockCalled == module.ok /\ module.cls = "Block" /\ y.called

(* C6: Block.forward computes x1 = x + attn(norm1(x)) and returns           *)
(* x1 + mlp(norm2(x1)); the output has the shape of the input.              *)
C6_BlockForward ==
    (BlockCalled /\ x[3] = module.args.dim) =>
        /\ y.ok
        /\ Cardinality(Pos(y, 1, "", "norm1")) = 1
        /\ Cardinality(Pos(y, 1, "", "norm2")) = 1
        /\ Cardinality(Pos(y, 1, "", "add")) = 2
        /\ LET t     == y.tape
               norm1 == Min(Pos(y, 1, "", "norm1"))
               norm2 == Min(Pos(y, 1, "", "norm2"))
               x1    == Min(Pos(y, 1, "", "add"))
               out   == Max(Pos(y, 1, "", "add"))
               qkv   == Min(Pos(y, 1, "attn", "qkv"))
               proj  == Max(Pos(y, 1, "attn", "proj"))
               fc1   == Min(Pos(y, 1, "mlp", "fc1"))
               fc2   == Max(Pos(y, 1, "mlp", "fc2"))
           IN  /\ t[norm1].ins = <<1>>
               /\ t[qkv].ins = <<norm1>>
               /\ norm1 < qkv /\ qkv < proj /\ proj < x1
               /\ t[x1].ins = <<1, proj>>
               /\ t[norm2].ins = <<x1>>
               /\ t[fc1].ins = <<norm2>>
               /\ x1 < norm2 /\ norm2 < fc1 /\ fc1 < fc2 /\ fc2 < out
               /\ t[out].ins = <<x1, fc2>>
               /\ out = Out(y)
        /\ OutShape(y) = x

C6_Witness ==
    /\ BlockCalled /\ y.ok
    /\ x = <<2, 3, 4>>
    /\ Ops(y)[Out(y)] = "add"

TransformerCalled == module.ok /\ module.cls = "Transformer" /\ y.called

(* C7: a Transformer holds exactly num_blocks blocks; forward applies each  *)
(* exactly once, in list order, the output of one being the input of the    *)
(* next; the output has the shape of the input and with num_blocks = 0 the  *)
(* input is returned unchanged.                                             *)
C7_TransformerForward ==
    /\ (module.ok /\ module.cls = "Transformer")
         => Len(module.mod.blocks) = module.args.num_blocks
    /\ (TransformerCalled /\ (x[3] = module.args.dim \/ module.args.num_blocks = 0)) =>
         LET n == module.args.num_blocks
             t == y.tape
         IN  /\ y.ok
             /\ {t[j].blk : j \in 2..Len(t)} = 1..n
             /\ \A i \in 1..n : Cardinality(Pos(y, i, "", "norm1")) = 1
             /\ \A j \in 2..Len(t), k \in 2..Len(t) : j < k => t[j].blk <= t[k].blk
             /\ \A i \in 1..n :
                    t[Min(BlockPos(y, i))].ins
                      = <<IF i = 1 THEN 1 ELSE Max(BlockPos(y, i - 1))>>
             /\ OutShape(y) = x
             /\ (n = 0 => Out(y) = 1)

C7_Witness ==
    /\ TransformerCalled /\ y.ok
    /\ module.args.num_blocks = 2
    /\ x = <<2, 3, 4>>
    /\ BlockPos(y, 2) # {}

LitTransformerCalled == module.ok /\ module.cls = "LitTransformer" /\ y.called

(* C8: LitTransformer.forward embeds each patch to embed_dim, runs the      *)
(* encoder, flattens all seqlen*embed_dim features of every sample and      *)
(* returns [B, num_classes] logits; the head's input size is                *)
(* seqlen*embed_dim, so another sequence length is rejected with a shape    *)
(* error.                                                                   *)
C8_LitTransformerForward ==
    /\ (module.ok /\ module.cls = "LitTransformer")
         => module.mod.fc.in_features = module.args.seqlen * module.args.embed_dim
    /\ (LitTransformerCalled /\ x[3] = module.args.patch_dim) =>
         LET B  == x[1]
             N  == x[2]
             E  == module.args.embed_dim
             t  == y.tape
             fl == Min(Pos(y, 0, "", "flatten"))
         IN  /\ t[2].op = "embed" /\ t[2].ins = <<1>> /\ t[2].shape = <<B, N, E>>
             /\ Cardinality(Pos(y, 0, "", "flatten")) = 1
             /\ t[fl].ins = <<fl - 1>>
             /\ t[fl - 1].shape = <<B, N, E>>
             /\ {t[j].blk : j \in 3..(fl - 1)} = 1..module.args.depth
             /\ t[fl].shape = <<B, N * E>>
             /\ (N = module.args.seqlen =>
                    /\ y.ok
                    /\ t[Out(y)].op = "fc" /\ t[Out(y)].ins = <<fl>>
                    /\ OutShape(y) = <<B, module.args.num_classes>>)
             /\ (N # module.args.seqlen =>
                    /\ ~y.ok
                    /\ y.err = "RuntimeError: mat1 and mat2 shapes cannot be multiplied"
                    /\ Out(y) = fl)

C8_Witness ==
    /\ LitTransformerCalled /\ y.ok
    /\ module.args.depth = 2
    /\ module.args.seqlen = 3 /\ module.args.embed_dim = 4
    /\ x = <<2, 3, 2>>
    /\ OutShape(y) = <<2, 10>>

(* C10: when LitTransformer.__init__ returns, every nn.Linear of the model  *)
(* has the timm initialisation: a truncated-normal weight with std 0.02 and *)
(* a zero bias where it has a bias.                                         *)
C10_TimmInitApplied ==
    (module.ok /\ module.cls = "LitTransformer") =>
        \A l \in Linears(module.mod) :
            /\ l.weight_init = "trunc_normal_std_0.02"
            /\ (l.bias => l.bias_init = "zeros")

(***************************************************************************)
(* The main sequences of the notebooks.                                    *)
(*                                                                         *)
(* The data set is scaled down to TrainSetSize training samples, few      *)
(* enough for every order of a shuffled loader to be drawn, and            *)
(* TestSetSize test samples; the samples of a split are numbered from 0.   *)
(* A tensor with a batch axis is the sequence of its per-sample items;     *)
(* an item names its kind and its sample.  The arithmetic of the networks  *)
(* is not modelled: the output for a sample stands for a value that        *)
(* depends on the sample and on the weights, and the weights are counted   *)
(* by the training epochs that produced them.  Scalars are fractions       *)
(* num/den.                                                                *)
(***************************************************************************)
TrainSetSize == 3

TestSetSize == 70

RECURSIVE GCD(_, _)
GCD(a, b) == IF b = 0 THEN a ELSE GCD(b, a % b)

(* the least common multiple of the denominators *)
RECURSIVE CommonDen(_)
CommonDen(fs) ==
    IF fs = <<>> THEN 1
    ELSE Let(CommonDen(Tail(fs)), LAMBDA d : (Head(fs).den * d) \div GCD(Head(fs).den, d))

(* torch.stack(values).mean() of scalars *)
StackMean(fs) ==
    [num |-> Sum([i \in 1..Len(fs) |-> fs[i].num * (CommonDen(fs) \div fs[i].den)]),
     den |-> CommonDen(fs) * Len(fs)]

(* s[:n] *)
Take(s, n) == SubSeq(s, 1, Min({n, Len(s)}))

Items(kind, ids) == [i \in 1..Len(ids) |-> <<kind, ids[i]>>]

(* A call with keyword arguments kw of an __init__ whose parameters have  *)
(* these defaults: a keyword that names no parameter lands in **kwargs.   *)
(* save_hyperparameters() stores every argument of the call, **kwargs     *)
(* included, as self.hparams.                                              *)
save_hyperparameters(defaults, kw) ==
    [p \in DOMAIN defaults \cup DOMAIN kw |->
        IF p \in DOMAIN kw THEN kw[p] ELSE defaults[p]]

(* torch.utils.data.DataLoader(CIFAR10(train=train), batch_size, shuffle, collate_fn) *)
DataLoader(train, batch_size, shuffle, collate) ==
    [class |-> "DataLoader", dataset |-> [class |-> "CIFAR10", train |-> train],
     batch_size |-> batch_size, shuffle |-> shuffle, collate_fn |-> collate]

(* len(dataset) *)
DatasetSize(dataset) == IF dataset.train THEN TrainSetSize ELSE TestSetSize

(* len(loader); drop_last is False *)
NumBatches(loader) ==
    (DatasetSize(loader.dataset) + loader.batch_size - 1) \div loader.batch_size

(* The orders in which iter(loader) may yield the samples: with shuffle   *)
(* any permutation of the split, drawn anew for each pass; without, the   *)
(* order of the data set.                                                 *)
SamplerOrders(loader) ==
    IF loader.shuffle
    THEN {o \in [1..DatasetSize(loader.dataset) -> 0..(DatasetSize(loader.dataset) - 1)] :
             \A i, j \in 1..DatasetSize(loader.dataset) : i # j => o[i] # o[j]}
    ELSE {[i \in 1..DatasetSize(loader.dataset) |-> i - 1]}

(* The samples of batch batch_idx of a pass that yields the samples in    *)
(* this order.                                                            *)
BatchIds(loader, order, batch_idx) ==
    [j \in 1..Min({loader.batch_size,
                   DatasetSize(loader.dataset) - batch_idx * loader.batch_size}) |->
        order[batch_idx * loader.batch_size + j]]

(* The batch the loader's collate function makes of these samples:        *)
(* gray_collate_fn returns (xn, x), the others (x, y).                    *)
Collate(loader, ids) ==
    CASE loader.collate_fn = "gray_collate_fn" ->
            <<Items("gray", ids), Items("color", ids)>>
      [] loader.collate_fn = "LitCifar10.collate_fn" ->
            <<Items("patches", ids), [i \in 1..Len(ids) |-> LabelOf(ids[i])]>>
      [] OTHER -> <<Items("image", ids), [i \in 1..Len(ids) |-> LabelOf(ids[i])]>>

(* The error of the colorized image of sample k under weights w. *)
Err(k, w) == (k + w) % 4

(* The class predicted for sample k under weights w. *)
Pred(k, w) == (k + 3 * w) % NumClasses

(* nn.MSELoss()(x_tilde, x), reduction 'mean' *)
MSELoss(x_tilde, xs) ==
    [num |-> Sum([i \in 1..Len(xs) |-> Err(xs[i][2], x_tilde[i][3])]), den |-> Len(xs)]

(* CrossEntropyLoss()(y_hat, y), reduction 'mean' *)
CrossEntropyLoss(y_hat, ys) ==
    [num |-> Sum([i \in 1..Len(ys) |->
                    IF y_hat[i].argmax = ys[i] THEN 0 ELSE 1 + ((y_hat[i].argmax + ys[i]) % 3)]),
     den |-> Len(ys)]

(* torchmetrics accuracy(y_hat, y): the fraction of correct predictions *)
accuracy(y_hat, ys) ==
    [num |-> Cardinality({i \in 1..Len(ys) : y_hat[i].argmax = ys[i]}), den |-> Len(ys)]


(***************************************************************************)
(* Colorization notebook: LitColorizeCIFAR10Model, get_args, WandbCallback *)
(***************************************************************************)
LitColorizeCIFAR10ModelDefaults ==
    [feature_dim |-> 256, lr |-> "0.001", batch_size |-> 64, num_workers |-> 4,
     max_epochs |-> 30]

(* the encoder and the decoder are those of Encoder and Decoder above *)
LitColorizeCIFAR10Model(kw) ==
    [class |-> "LitColorizeCIFAR10Model",
     hparams |-> save_hyperparameters(LitColorizeCIFAR10ModelDefaults, kw),
     loss |-> "MSELoss", weights |-> 0]

LitColorizeCIFAR10Model_forward(self, xs) ==
    [i \in 1..Len(xs) |-> <<"colorized", xs[i][2], self.weights>>]

LitColorizeCIFAR10Model_training_step(self, batch, batch_idx) ==
    [loss |-> MSELoss(LitColorizeCIFAR10Model_forward(self, batch[1]), batch[2])]

(* the calls of self.log, in order *)
LitColorizeCIFAR10Model_training_epoch_end(self, outputs) ==
    <<[key |-> "train_loss",
       value |-> StackMean([i \in 1..Len(outputs) |-> outputs[i].loss])]>>

LitColorizeCIFAR10Model_test_step(self, batch, batch_idx) ==
    [x_in |-> batch[1], x |-> batch[2],
     x_tilde |-> LitColorizeCIFAR10Model_forward(self, batch[1]),
     test_loss |-> MSELoss(LitColorizeCIFAR10Model_forward(self, batch[1]), batch[2])]

(* the calls of self.log, in order *)
LitColorizeCIFAR10Model_test_epoch_end(self, outputs) ==
    <<[key |-> "test_loss",
       value |-> StackMean([i \in 1..Len(outputs) |-> outputs[i].test_loss])]>>

LitColorizeCIFAR10Model_validation_step(self, batch, batch_idx) ==
    LitColorizeCIFAR10Model_test_step(self, batch, batch_idx)

LitColorizeCIFAR10Model_validation_epoch_end(self, outputs) ==
    LitColorizeCIFAR10Model_test_epoch_end(self, outputs)

(* the annealing period taken from another hyperparameter *)
LitColorizeCIFAR10Model_configure_optimizers_batch(self) ==
    [optimizer |-> [class |-> "Adam", lr |-> self.hparams.lr],
     scheduler |-> [class |-> "CosineAnnealingLR", T_max |-> self.hparams.batch_size,
                    last_epoch |-> 0]]

LitColorizeCIFAR10Model_configure_optimizers(self) ==
    [optimizer |-> [class |-> "Adam", lr |-> self.hparams.lr],
     scheduler |-> [class |-> "CosineAnnealingLR", T_max |-> self.hparams.max_epochs,
                    last_epoch |-> 0]]

LitColorizeCIFAR10Model_train_dataloader(self) ==
    DataLoader(TRUE, self.hparams.batch_size, TRUE, "gray_collate_fn")

LitColorizeCIFAR10Model_test_dataloader(self) ==
    DataLoader(FALSE, self.hparams.batch_size, FALSE, "gray_collate_fn")

LitColorizeCIFAR10Model_val_dataloader(self) ==
    LitColorizeCIFAR10Model_test_dataloader(self)

(* get_args(): parse_args("") parses an empty argument list, so every     *)
(* argument has its default                                                *)
ColorizeGetArgsResult ==
    [max_epochs |-> 30, batch_size |-> 64, lr |-> "0.001",
     feature_dim |-> 256, devices |-> 1, accelerator |-> "gpu", num_workers |-> 4]

(* The tables logged by WandbCallback.on_validation_batch_end. *)
ColorizeWandbCallback_on_validation_batch_end(pl_module, outputs, batch, batch_idx) ==
    IF batch_idx = 0
    THEN <<[key |-> "cifar10-colorize-ae",
            columns |-> <<"gt color", "gray", "colorized">>,
            data |-> [i \in 1..Min({Len(Take(batch[2], pl_module.hparams.batch_size \div 4)),
                                    Len(Take(batch[1], pl_module.hparams.batch_size \div 4)),
                                    Len(Take(outputs.x_tilde,
                                             pl_module.hparams.batch_size \div 4))}) |->
                        <<batch[2][i], batch[1][i], outputs.x_tilde[i]>>]]>>
    ELSE <<>>

(***************************************************************************)
(* Transformer notebook: LitTransformer as a Lightning module, the loaders *)
(* of LitCifar10, get_args.                                                *)
(***************************************************************************)
(* another default of max_epochs *)
LitTransformerDefaults_epochs ==
    [num_classes |-> 10, lr |-> "0.001", max_epochs |-> 100, depth |-> 12,
     embed_dim |-> 64, head |-> 4, patch_dim |-> 192, seqlen |-> 16]

LitTransformerDefaults ==
    [num_classes |-> 10, lr |-> "0.001", max_epochs |-> 30, depth |-> 12,
     embed_dim |-> 64, head |-> 4, patch_dim |-> 192, seqlen |-> 16]

(* LitTransformer called with the keyword arguments kw: the Lightning     *)
(* module and its hyperparameters; its layers are those of LitTransformer *)
(* above                                                                   *)
LitTransformerModule(kw) ==
    [class |-> "LitTransformer",
     hparams |-> save_hyperparameters(LitTransformerDefaults, kw),
     loss |-> "CrossEntropyLoss", weights |-> 0]

(* the logits of each sample, known by their argmax *)
Classify(self, xs) == [i \in 1..Len(xs) |-> [argmax |-> Pred(xs[i][2], self.weights)]]

(* returns the loss itself; the class has no training_epoch_end *)
LitTransformer_training_step(self, batch, batch_idx) ==
    CrossEntropyLoss(Classify(self, batch[1]), batch[2])

LitTransformer_test_step(self, batch, batch_idx) ==
    [y_hat |-> Classify(self, batch[1]),
     test_loss |-> CrossEntropyLoss(Classify(self, batch[1]), batch[2]),
     test_acc |-> accuracy(Classify(self, batch[1]), batch[2])]

LitTransformer_test_epoch_end(self, outputs) ==
    <<[key |-> "test_loss",
       value |-> StackMean([i \in 1..Len(outputs) |-> outputs[i].test_loss])],
      [key |-> "test_acc",
       value |-> [num |-> StackMean([i \in 1..Len(outputs) |-> outputs[i].test_acc]).num * 100,
                  den |-> StackMean([i \in 1..Len(outputs) |-> outputs[i].test_acc]).den]]>>

LitTransformer_validation_step(self, batch, batch_idx) ==
    LitTransformer_test_step(self, batch, batch_idx)

(* the averages logged under keys of their own *)
LitTransformer_validation_epoch_end_val(self, outputs) ==
    <<[key |-> "val_loss",
       value |-> StackMean([i \in 1..Len(outputs) |-> outputs[i].test_loss])],
      [key |-> "val_acc",
       value |-> [num |-> StackMean([i \in 1..Len(outputs) |-> outputs[i].test_acc]).num * 100,
                  den |-> StackMean([i \in 1..Len(outputs) |-> outputs[i].test_acc]).den]]>>

LitTransformer_validation_epoch_end(self, outputs) ==
    LitTransformer_test_epoch_end(self, outputs)

LitTransformer_configure_optimizers(self) ==
    [optimizer |-> [class |-> "Adam", lr |-> self.hparams.lr],
     scheduler |-> [class |-> "CosineAnnealingLR", T_max |-> self.hparams.max_epochs,
                    last_epoch |-> 0]]

LitCifar10_train_dataloader(self) ==
    DataLoader(TRUE, self.batch_size, TRUE, "LitCifar10.collate_fn")

LitCifar10_test_dataloader(self) ==
    DataLoader(FALSE, self.batch_size, FALSE, "LitCifar10.collate_fn")

LitCifar10_val_dataloader(self) == LitCifar10_test_dataloader(self)

(* get_args(): parse_args("") parses an empty argument list, so every     *)
(* argument has its default                                                *)
TransformerGetArgsResult ==
    [depth |-> 12, embed_dim |-> 64, num_heads |-> 4, patch_num |-> 8, kernel_size |-> 3,
     batch_size |-> 64, max_epochs |-> 30, lr |-> "0.001",
     accelerator |-> "gpu", devices |-> 1, dataset |-> "cifar10", num_workers |-> 4]

(***************************************************************************)
(* MLP notebook: LitCIFAR10Model, get_args, WandbCallback.                 *)
(***************************************************************************)
LitCIFAR10ModelDefaults ==
    [num_classes |-> 10, lr |-> "0.001", batch_size |-> 64, num_workers |-> 4,
     max_epochs |-> 30, model |-> "SimpleMLP"]

LitCIFAR10Model(kw) ==
    [class |-> "LitCIFAR10Model",
     hparams |-> save_hyperparameters(LitCIFAR10ModelDefaults, kw),
     model |-> [class |-> kw.model], loss |-> "CrossEntropyLoss", weights |-> 0]

LitCIFAR10Model_training_step(self, batch, batch_idx) ==
    [loss |-> CrossEntropyLoss(Classify(self, batch[1]), batch[2])]

LitCIFAR10Model_training_epoch_end(self, outputs) ==
    <<[key |-> "train_loss",
       value |-> StackMean([i \in 1..Len(outputs) |-> outputs[i].loss])]>>

LitCIFAR10Model_test_step(self, batch, batch_idx) ==
    [y_hat |-> Classify(self, batch[1]),
     test_loss |-> CrossEntropyLoss(Classify(self, batch[1]), batch[2]),
     test_acc |-> [num |-> accuracy(Classify(self, batch[1]), batch[2]).num * 100,
                   den |-> accuracy(Classify(self, batch[1]), batch[2]).den]]

LitCIFAR10Model_test_epoch_end(self, outputs) ==
    <<[key |-> "test_loss",
       value |-> StackMean([i \in 1..Len(outputs) |-> outputs[i].test_loss])],
      [key |-> "test_acc",
       value |-> StackMean([i \in 1..Len(outputs) |-> outputs[i].test_acc])]>>

LitCIFAR10Model_validation_step(self, batch, batch_idx) ==
    LitCIFAR10Model_test_step(self, batch, batch_idx)

LitCIFAR10Model_validation_epoch_end(self, outputs) ==
    LitCIFAR10Model_test_epoch_end(self, outputs)

LitCIFAR10Model_configure_optimizers(self) ==
    [optimizer |-> [class |-> "Adam", lr |-> self.hparams.lr],
     scheduler |-> [class |-> "CosineAnnealingLR", T_max |-> self.hparams.max_epochs,
                    last_epoch |-> 0]]

LitCIFAR10Model_train_dataloader(self) ==
    DataLoader(TRUE, self.hparams.batch_size, TRUE, "default_collate")

LitCIFAR10Model_test_dataloader(self) ==
    DataLoader(FALSE, self.hparams.batch_size, FALSE, "default_collate")

LitCIFAR10Model_val_dataloader(self) == LitCIFAR10Model_test_dataloader(self)

(* get_args(): parse_args("") parses an empty argument list, so every     *)
(* argument has its default                                                *)
MlpGetArgsResult ==
    [max_epochs |-> 30, batch_size |-> 64, lr |-> "0.001",
     num_classes |-> 10, devices |-> 1, accelerator |-> "gpu", num_workers |-> 4,
     model |-> "SimpleMLP"]

label_human ==
    <<"airplane", "automobile", "bird", "cat", "deer", "dog", "frog", "horse", "ship", "truck">>

(* The tables logged by WandbCallback.on_validation_batch_end; a row is   *)
(* [wandb.Image(x_i), label_human[y_i], label_human[y_pred]].             *)
MlpWandbCallback_on_validation_batch_end(pl_module, outputs, batch, batch_idx) ==
    IF batch_idx = 0
    THEN <<[key |-> pl_module.model.class,
            columns |-> <<"image", "ground truth", "prediction">>,
            data |-> [i \in 1..Min({Len(Take(batch[1], 10)), Len(Take(batch[2], 10)),
                                    Len(Take(outputs.y_hat, 10))}) |->
                        <<batch[1][i], label_human[batch[2][i] + 1],
                          label_human[outputs.y_hat[i].argmax + 1]>>]]>>
    ELSE <<>>

(***************************************************************************)
(* The Trainer.  fit first checks the validation code on the untrained     *)
(* module: it validates the first batches of the validation loader, at    *)
(* most two (num_sanity_val_steps is left to its default), and calls      *)
(* validation_epoch_end; what self.log logs there is not recorded, what   *)
(* the callbacks log is.  Then it runs max_epochs epochs; an epoch runs   *)
(* training_step on the training batches, steps the learning-rate         *)
(* scheduler, validates every batch of the validation loader              *)
(* (validation_step, then the callbacks' on_validation_batch_end), calls  *)
(* validation_epoch_end and then training_epoch_end.  test runs test_step *)
(* on every batch of the test loader and calls test_epoch_end.            *)
(***************************************************************************)
Trainer(max_epochs, logger, callbacks) ==
    [class |-> "Trainer", max_epochs |-> max_epochs, logger |-> logger,
     callbacks |-> callbacks, current_epoch |-> 0, lr_scheduler |-> NoModule,
     logged |-> <<>>, fitted |-> FALSE, tested |-> FALSE]

validation_step(self, batch, batch_idx) ==
    CASE self.class = "LitColorizeCIFAR10Model" ->
            LitColorizeCIFAR10Model_validation_step(self, batch, batch_idx)
      [] self.class = "LitTransformer" -> LitTransformer_validation_step(self, batch, batch_idx)
      [] self.class = "LitCIFAR10Model" -> LitCIFAR10Model_validation_step(self, batch, batch_idx)

training_step(self, batch, batch_idx) ==
    CASE self.class = "LitColorizeCIFAR10Model" ->
            LitColorizeCIFAR10Model_training_step(self, batch, batch_idx)
      [] self.class = "LitTransformer" -> LitTransformer_training_step(self, batch, batch_idx)
      [] self.class = "LitCIFAR10Model" -> LitCIFAR10Model_training_step(self, batch, batch_idx)

validation_epoch_end(self, outputs) ==
    CASE self.class = "LitColorizeCIFAR10Model" ->
            LitColorizeCIFAR10Model_validation_epoch_end(self, outputs)
      [] self.class = "LitTransformer" -> LitTransformer_validation_epoch_end(self, outputs)
      [] self.class = "LitCIFAR10Model" -> LitCIFAR10Model_validation_epoch_end(self, outputs)

(* the tables logged by on_validation_batch_end of the callbacks of the *)
(* Trainer, in list order                                                *)
RECURSIVE HookTables(_, _, _, _, _)
HookTables(callbacks, pl_module, outputs, batch, batch_idx) ==
    IF callbacks = <<>> THEN <<>>
    ELSE (CASE Head(callbacks).notebook = "colorize" ->
                 ColorizeWandbCallback_on_validation_batch_end(pl_module, outputs, batch,
                                                               batch_idx)
            [] Head(callbacks).notebook = "mlp" ->
                 MlpWandbCallback_on_validation_batch_end(pl_module, outputs, batch,
                                                          batch_idx))
            \o HookTables(Tail(callbacks), pl_module, outputs, batch, batch_idx)

(* the loop of trainer.fit or trainer.test at its beginning *)
TrainerLoop(stage, train, loader, order) ==
    [stage |-> stage, train_loader |-> train, loader |-> loader, order |-> order,
     batch_idx |-> 0,
     outputs |-> <<>>, train_outputs |-> <<>>]

(* the keyword arguments of the constructor calls of the main sequences *)
ColorizeModelKeywords(a) ==
    [feature_dim |-> a.feature_dim, lr |-> a.lr, batch_size |-> a.batch_size,
     num_workers |-> a.num_workers, max_epochs |-> a.max_epochs]

TransformerModelKeywords(a) ==
    [num_classes |-> 10, lr |-> a.lr, epochs |-> a.max_epochs, depth |-> a.depth,
     embed_dim |-> a.embed_dim, head |-> a.num_heads,
     patch_dim |-> CifarChannels * (CifarSide \div a.patch_num) * (CifarSide \div a.patch_num),
     seqlen |-> a.patch_num * a.patch_num]

MlpModelKeywords(a) ==
    [num_classes |-> a.num_classes, lr |-> a.lr, batch_size |-> a.batch_size,
     num_workers |-> a.num_workers, model |-> a.model]

(* the Trainer without its callback *)
ColorizeTrainer_nocallback(a) == Trainer(a.max_epochs, "WandbLogger", <<>>)

ColorizeTrainer(a) ==
    Trainer(a.max_epochs, "WandbLogger",
            <<[class |-> "WandbCallback", notebook |-> "colorize"]>>)

(* logger and callbacks are left to their defaults *)
TransformerTrainer(a) == Trainer(a.max_epochs, "default", <<>>)

MlpTrainer(a) ==
    Trainer(a.max_epochs, "WandbLogger", <<[class |-> "WandbCallback", notebook |-> "mlp"]>>)

(* the exception handled and the script resumed after the failed call *)
AfterRaise_caught(at) == IF at = "fit" THEN "fitted" ELSE "tested"

(* An exception leaves trainer.fit or trainer.test: no statement of a     *)
(* main sequence is inside a try, so the script ends there.               *)
AfterRaise(at) == "raised"

(***************************************************************************)
(* Actions of the main sequences.                                          *)
(***************************************************************************)
ColorizeGetArgs ==
    /\ pc = "start"
    /\ args' = ColorizeGetArgsResult
    /\ notebook' = "colorize"
    /\ pc' = "args"
    /\ UNCHANGED <<module, x, y, datamodule, lit, trainer, loop, wandb>>

ColorizeNewModel ==
    /\ pc = "args" /\ notebook = "colorize"
    /\ lit' = LitColorizeCIFAR10Model(ColorizeModelKeywords(args))
    /\ pc' = "model"
    /\ UNCHANGED <<module, x, y, notebook, args, datamodule, trainer, loop, wandb>>

ColorizeNewTrainer ==
    /\ pc = "model" /\ notebook = "colorize"
    /\ trainer' = ColorizeTrainer(args)
    /\ pc' = "trainer"
    /\ UNCHANGED <<module, x, y, notebook, args, datamodule, lit, loop, wandb>>

ColorizeFit ==
    /\ pc = "trainer" /\ notebook = "colorize"
    /\ trainer' = [trainer EXCEPT
                     !.lr_scheduler = LitColorizeCIFAR10Model_configure_optimizers(lit).scheduler]
    /\ \E order \in SamplerOrders(LitColorizeCIFAR10Model_val_dataloader(lit)) :
          loop' = TrainerLoop("sanity", LitColorizeCIFAR10Model_train_dataloader(lit),
                              LitColorizeCIFAR10Model_val_dataloader(lit), order)
    /\ pc' = "fit"
    /\ UNCHANGED <<module, x, y, notebook, args, datamodule, lit, wandb>>

ColorizeFinish ==
    /\ pc = "fitted" /\ notebook = "colorize"
    /\ wandb' = [wandb EXCEPT !.finished = TRUE]
    /\ pc' = "done"
    /\ UNCHANGED <<module, x, y, notebook, args, datamodule, lit, trainer, loop>>

TransformerGetArgs ==
    /\ pc = "start"
    /\ args' = TransformerGetArgsResult
    /\ notebook' = "transformer"
    /\ pc' = "args"
    /\ UNCHANGED <<module, x, y, datamodule, lit, trainer, loop, wandb>>

TransformerNewDataModule ==
    /\ pc = "args" /\ notebook = "transformer"
    /\ datamodule' = LitCifar10(args.batch_size, args.num_workers * args.devices,
                                args.patch_num).mod
    /\ pc' = "data"
    /\ UNCHANGED <<module, x, y, notebook, args, lit, trainer, loop, wandb>>

TransformerNewModel ==
    /\ pc = "data" /\ notebook = "transformer"
    /\ lit' = LitTransformerModule(TransformerModelKeywords(args))
    /\ pc' = "model"
    /\ UNCHANGED <<module, x, y, notebook, args, datamodule, trainer, loop, wandb>>

TransformerNewTrainer ==
    /\ pc = "model" /\ notebook = "transformer"
    /\ trainer' = TransformerTrainer(args)
    /\ pc' = "trainer"
    /\ UNCHANGED <<module, x, y, notebook, args, datamodule, lit, loop, wandb>>

TransformerFit ==
    /\ pc = "trainer" /\ notebook = "transformer"
    /\ trainer' = [trainer EXCEPT
                     !.lr_scheduler = LitTransformer_configure_optimizers(lit).scheduler]
    /\ \E order \in SamplerOrders(LitCifar10_val_dataloader(datamodule)) :
          loop' = TrainerLoop("sanity", LitCifar10_train_dataloader(datamodule),
                              LitCifar10_val_dataloader(datamodule), order)
    /\ pc' = "fit"
    /\ UNCHANGED <<module, x, y, notebook, args, datamodule, lit, wandb>>

MlpGetArgs ==
    /\ pc = "start"
    /\ args' = MlpGetArgsResult
    /\ notebook' = "mlp"
    /\ pc' = "args"
    /\ UNCHANGED <<module, x, y, datamodule, lit, trainer, loop, wandb>>

(* model.setup() builds the two loaders and drops them *)
MlpNewModel ==
    /\ pc = "args" /\ notebook = "mlp"
    /\ lit' = LitCIFAR10Model(MlpModelKeywords(args))
    /\ pc' = "model"
    /\ UNCHANGED <<module, x, y, notebook, args, datamodule, trainer, loop, wandb>>

MlpNewTrainer ==
    /\ pc = "model" /\ notebook = "mlp"
    /\ trainer' = MlpTrainer(args)
    /\ pc' = "trainer"
    /\ UNCHANGED <<module, x, y, notebook, args, datamodule, lit, loop, wandb>>

MlpFit ==
    /\ pc = "trainer" /\ notebook = "mlp"
    /\ trainer' = [trainer EXCEPT
                     !.lr_scheduler = LitCIFAR10Model_configure_optimizers(lit).scheduler]
    /\ \E order \in SamplerOrders(LitCIFAR10Model_val_dataloader(lit)) :
          loop' = TrainerLoop("sanity", LitCIFAR10Model_train_dataloader(lit),
                              LitCIFAR10Model_val_dataloader(lit), order)
    /\ pc' = "fit"
    /\ UNCHANGED <<module, x, y, notebook, args, datamodule, lit, wandb>>

MlpTest ==
    /\ pc = "fitted" /\ notebook = "mlp"
    /\ \E order \in SamplerOrders(LitCIFAR10Model_test_dataloader(lit)) :
          loop' = TrainerLoop("test", NoModule, LitCIFAR10Model_test_dataloader(lit), order)
    /\ pc' = "test"
    /\ UNCHANGED <<module, x, y, notebook, args, datamodule, lit, trainer, wandb>>

MlpFinish ==
    /\ pc = "tested" /\ notebook = "mlp"
    /\ wandb' = [wandb EXCEPT !.finished = TRUE]
    /\ pc' = "done"
    /\ UNCHANGED <<module, x, y, notebook, args, datamodule, lit, trainer, loop>>

(* The check before the first epoch ends: validation_epoch_end is called, *)
(* and what it logs is not recorded.                                       *)
FitSanityEnd ==
    /\ pc = "fit" /\ loop.stage = "sanity"
    /\ loop.batch_idx = Min({2, NumBatches(loop.loader)})
    /\ loop' = [loop EXCEPT !.stage = "train", !.batch_idx = 0, !.outputs = <<>>]
    /\ UNCHANGED <<module, x, y, pc, notebook, args, datamodule, lit, trainer, wandb>>

(* The training batches of one epoch: training_step on each batch, after *)
(* which the optimizer changes the weights; after the last batch the      *)
(* learning-rate scheduler steps.                                          *)
FitTrainingEpoch ==
    /\ pc = "fit" /\ loop.stage = "train"
    /\ trainer.current_epoch < trainer.max_epochs
    /\ lit' = [lit EXCEPT !.weights = @ + NumBatches(loop.train_loader)]
    /\ trainer' = [trainer EXCEPT !.lr_scheduler.last_epoch = @ + 1]
    /\ \E train_order \in SamplerOrders(loop.train_loader),
          order \in SamplerOrders(loop.loader) :
          loop' = [loop EXCEPT
                     !.stage = "val", !.order = order, !.batch_idx = 0, !.outputs = <<>>,
                     !.train_outputs =
                         [i \in 1..NumBatches(loop.train_loader) |->
                             training_step([lit EXCEPT !.weights = @ + i - 1],
                                           Collate(loop.train_loader,
                                                   BatchIds(loop.train_loader, train_order,
                                                            i - 1)),
                                           i - 1)]]
    /\ UNCHANGED <<module, x, y, pc, notebook, args, datamodule, wandb>>

(* A validation batch: the check before the first epoch takes at most two *)
(* batches from the loader (num_sanity_val_steps), an epoch all of them.   *)
FitValidationStep ==
    /\ pc = "fit" /\ loop.stage \in {"sanity", "val"}
    /\ loop.batch_idx < (IF loop.stage = "sanity" THEN Min({2, NumBatches(loop.loader)})
                         ELSE NumBatches(loop.loader))
    /\ loop' = [loop EXCEPT
                  !.outputs = Append(@, validation_step(lit,
                                  Collate(loop.loader, BatchIds(loop.loader, loop.order, loop.batch_idx)),
                                  loop.batch_idx)),
                  !.batch_idx = @ + 1]
    /\ wandb' = [wandb EXCEPT !.tables = @ \o
                  HookTables(trainer.callbacks, lit,
                             validation_step(lit,
                                 Collate(loop.loader, BatchIds(loop.loader, loop.order, loop.batch_idx)),
                                 loop.batch_idx),
                             Collate(loop.loader, BatchIds(loop.loader, loop.order, loop.batch_idx)),
                             loop.batch_idx)]
    /\ UNCHANGED <<module, x, y, pc, notebook, args, datamodule, lit, trainer>>

(* the outputs of the validation stay in the loop until the next epoch *)
(* begins                                                               *)
FitValidationEpochEnd ==
    /\ pc = "fit" /\ loop.stage = "val"
    /\ loop.batch_idx = NumBatches(loop.loader)
    /\ trainer' = [trainer EXCEPT
                     !.logged = Append(@, [stage |-> "validate",
                                            epoch |-> trainer.current_epoch,
                                            metrics |-> validation_epoch_end(lit, loop.outputs)])]
    /\ loop' = [loop EXCEPT !.stage = "train_end"]
    /\ UNCHANGED <<module, x, y, pc, notebook, args, datamodule, lit, wandb>>

(* training_epoch_end on the outputs of the training steps of the epoch; *)
(* LitTransformer inherits the training_epoch_end of LightningModule,    *)
(* which logs nothing.  The epoch counter has advanced when the row is   *)
(* logged: the rows of training_epoch_end carry the epochs 1..max_epochs. *)
FitTrainingEpochEnd ==
    /\ pc = "fit" /\ loop.stage = "train_end"
    /\ trainer' = [trainer EXCEPT
                     !.logged =
                         CASE lit.class = "LitColorizeCIFAR10Model" ->
                                Append(@, [stage |-> "train", epoch |-> trainer.current_epoch + 1,
                                           metrics |-> LitColorizeCIFAR10Model_training_epoch_end(
                                                           lit, loop.train_outputs)])
                           [] lit.class = "LitCIFAR10Model" ->
                                Append(@, [stage |-> "train", epoch |-> trainer.current_epoch + 1,
                                           metrics |-> LitCIFAR10Model_training_epoch_end(
                                                           lit, loop.train_outputs)])
                           [] OTHER -> @,
                     !.current_epoch = @ + 1]
    /\ loop' = [loop EXCEPT !.stage = "train"]
    /\ UNCHANGED <<module, x, y, pc, notebook, args, datamodule, lit, wandb>>

FitReturn ==
    /\ pc = "fit" /\ loop.stage = "train"
    /\ trainer.current_epoch >= trainer.max_epochs
    /\ trainer' = [trainer EXCEPT !.fitted = TRUE]
    /\ pc' = "fitted"
    /\ UNCHANGED <<module, x, y, notebook, args, datamodule, lit, loop, wandb>>

TestStep ==
    /\ pc = "test"
    /\ loop.batch_idx < NumBatches(loop.loader)
    /\ loop' = [loop EXCEPT
                  !.outputs = Append(@, LitCIFAR10Model_test_step(lit,
                                  Collate(loop.loader, BatchIds(loop.loader, loop.order, loop.batch_idx)),
                                  loop.batch_idx)),
                  !.batch_idx = @ + 1]
    /\ UNCHANGED <<module, x, y, pc, notebook, args, datamodule, lit, trainer, wandb>>

(* test_epoch_end, then trainer.test returns *)
TestEpochEnd ==
    /\ pc = "test"
    /\ loop.batch_idx = NumBatches(loop.loader)
    /\ trainer' = [trainer EXCEPT
                     !.logged = Append(@, [stage |-> "test",
                                            epoch |-> trainer.current_epoch,
                                            metrics |-> LitCIFAR10Model_test_epoch_end(lit, loop.outputs)]),
                     !.tested = TRUE]
    /\ pc' = "tested"
    /\ UNCHANGED <<module, x, y, notebook, args, datamodule, lit, loop, wandb>>

(* trainer.fit or trainer.test raises *)
TrainerRaises ==
    /\ pc \in {"fit", "test"}
    /\ pc' = AfterRaise(pc)
    /\ UNCHANGED <<module, x, y, notebook, args, datamodule, lit, trainer, loop, wandb>>

MainNext ==
    \/ ColorizeGetArgs
    \/ ColorizeNewModel
    \/ ColorizeNewTrainer
    \/ ColorizeFit
    \/ ColorizeFinish
    \/ TransformerGetArgs
    \/ TransformerNewDataModule
    \/ TransformerNewModel
    \/ TransformerNewTrainer
    \/ TransformerFit
    \/ MlpGetArgs
    \/ MlpNewModel
    \/ MlpNewTrainer
    \/ MlpFit
    \/ MlpTest
    \/ MlpFinish
    \/ FitSanityEnd
    \/ FitTrainingEpoch
    \/ FitValidationStep
    \/ FitValidationEpochEnd
    \/ FitTrainingEpochEnd
    \/ FitReturn
    \/ TestStep
    \/ TestEpochEnd
    \/ TrainerRaises

MainSpec == Init /\ [][MainNext]_vars

(***************************************************************************)
(* Properties of the main sequences.                                       *)
(***************************************************************************)
(* trainer.fit has been called: the optimizers are configured *)
FitCalled == pc \in {"fit", "fitted", "test", "tested", "done", "raised"}

(* C11: in the colorization notebook, for every value of --max-epochs     *)
(* that get_args returns, the T_max of the CosineAnnealingLR that          *)
(* configure_optimizers returns equals the max_epochs given to the Trainer *)
(* that runs fit, so that the annealing period ends exactly at the last    *)
(* training epoch.                                                         *)
C11_ColorizeTmax ==
    notebook = "colorize" /\ FitCalled =>
        /\ trainer.max_epochs = args.max_epochs
        /\ lit.hparams.max_epochs = args.max_epochs
        /\ trainer.lr_scheduler.T_max = trainer.max_epochs
        /\ trainer.fitted => trainer.lr_scheduler.last_epoch = trainer.lr_scheduler.T_max

(* fit of the colorization notebook has returned after the epochs of      *)
(* --max-epochs, which the module was given as its max_epochs              *)
C11_Witness ==
    /\ notebook = "colorize" /\ pc = "fitted"
    /\ "max_epochs" \in DOMAIN ColorizeModelKeywords(args)
    /\ trainer.current_epoch = args.max_epochs
    /\ trainer.lr_scheduler.T_max = args.max_epochs
    /\ trainer.lr_scheduler.last_epoch = args.max_epochs

(* C12: in the transformer and MLP notebooks, for every value of           *)
(* --max-epochs returned by get_args, the T_max of the scheduler           *)
(* (self.hparams.max_epochs) equals the max_epochs of the Trainer          *)
(* (args.max_epochs), so that the learning rate reaches its minimum        *)
(* exactly when training ends.  get_args returns the default of            *)
(* --max-epochs, which is the default max_epochs of the two modules.       *)
C12_TmaxMatchesTrainer ==
    notebook \in {"transformer", "mlp"} /\ FitCalled =>
        /\ trainer.max_epochs = args.max_epochs
        /\ trainer.lr_scheduler.T_max = trainer.max_epochs
        /\ trainer.fitted => trainer.lr_scheduler.last_epoch = trainer.lr_scheduler.T_max

(* fit of the transformer notebook has returned: the module was not given *)
(* max_epochs, and its default is the number of epochs that have run       *)
C12_Witness ==
    /\ notebook = "transformer" /\ pc = "fitted"
    /\ "max_epochs" \notin DOMAIN TransformerModelKeywords(args)
    /\ trainer.current_epoch = args.max_epochs
    /\ trainer.lr_scheduler.T_max = LitTransformerDefaults.max_epochs
    /\ trainer.lr_scheduler.last_epoch = trainer.lr_scheduler.T_max

(* the Trainer holds a WandbCallback *)
CallbackWired ==
    \E i \in 1..Len(trainer.callbacks) : trainer.callbacks[i].class = "WandbCallback"

(* The number of validation passes whose first batch has been processed: *)
(* the check before the first epoch, the epochs that have ended and the   *)
(* epoch that is running.                                                  *)
FirstBatchesValidated ==
    (IF loop.stage = "sanity" /\ loop.batch_idx = 0 THEN 0 ELSE 1)
      + trainer.current_epoch
      + (IF (loop.stage = "val" /\ loop.batch_idx >= 1) \/ loop.stage = "train_end"
         THEN 1 ELSE 0)

(* C13 as stated: in every notebook (colorization, transformer, MLP) the   *)
(* Trainer that runs fit is constructed with a callback that logs sample   *)
(* predictions: it logs one table for each validation pass.                *)
C13_Original ==
    FitCalled => CallbackWired /\ Len(wandb.tables) = FirstBatchesValidated

(* C13 amended: the Trainers of the colorization and MLP notebooks are     *)
(* constructed with a WandbCallback, which logs one table of sample        *)
(* predictions for each validation pass; the Trainer of the transformer    *)
(* notebook has no callback and logs no table.                             *)
C13_CallbackWired ==
    /\ notebook \in {"colorize", "mlp"} /\ FitCalled =>
          CallbackWired /\ Len(wandb.tables) = FirstBatchesValidated
    /\ notebook = "transformer" /\ FitCalled =>
          trainer.callbacks = <<>> /\ wandb.tables = <<>>

(* the callback of the MLP notebook has logged the table of a validation   *)
(* pass during fit                                                         *)
C13_Witness ==
    /\ notebook = "mlp" /\ pc = "fit"
    /\ CallbackWired
    /\ trainer.current_epoch >= 1
    /\ Len(wandb.tables) = trainer.current_epoch + 1
    /\ wandb.tables[1].key = "SimpleMLP"

(* the samples of the first batch of the validation loader *)
FirstBatch == BatchIds(loop.loader, loop.order, 0)

(* table t has one row for each of the first n samples of the first batch, *)
(* in order: the first column of row i shows sample i - 1                  *)
RowsAreFirst(t, n) ==
    /\ Len(t.data) = n
    /\ \A i \in 1..Len(t.data) : i <= Len(FirstBatch) /\ t.data[i][1][2] = FirstBatch[i]

(* C14: in the colorization and the MLP notebook, for every configured     *)
(* batch_size whose first validation batch holds at least 10 samples,      *)
(* every table logged by WandbCallback.on_validation_batch_end has exactly *)
(* 10 rows, which are samples 0..9 of that batch in order.                 *)
C14_FirstTenRows ==
    notebook \in {"colorize", "mlp"} /\ wandb.tables # <<>> /\ Len(FirstBatch) >= 10 =>
        \A t \in 1..Len(wandb.tables) : RowsAreFirst(wandb.tables[t], 10)

test_step(self, batch, batch_idx) ==
    CASE self.class = "LitColorizeCIFAR10Model" ->
            LitColorizeCIFAR10Model_test_step(self, batch, batch_idx)
      [] self.class = "LitTransformer" -> LitTransformer_test_step(self, batch, batch_idx)
      [] self.class = "LitCIFAR10Model" -> LitCIFAR10Model_test_step(self, batch, batch_idx)

test_epoch_end(self, outputs) ==
    CASE self.class = "LitColorizeCIFAR10Model" ->
            LitColorizeCIFAR10Model_test_epoch_end(self, outputs)
      [] self.class = "LitTransformer" -> LitTransformer_test_epoch_end(self, outputs)
      [] self.class = "LitCIFAR10Model" -> LitCIFAR10Model_test_epoch_end(self, outputs)

(* the test loader of the notebook that runs *)
TestDataloader ==
    CASE notebook = "colorize" -> LitColorizeCIFAR10Model_test_dataloader(lit)
      [] notebook = "transformer" -> LitCifar10_test_dataloader(datamodule)
      [] notebook = "mlp" -> LitCIFAR10Model_test_dataloader(lit)

(* the keys of a list of logged metrics, in order *)
Keys(metrics) == [i \in 1..Len(metrics) |-> metrics[i].key]

(* a validation pass of fit is running: the check before the first epoch *)
(* or the validation of an epoch                                          *)
Validating == loop.stage \in {"sanity", "val"}

(* the validation of an epoch has just ended, with its outputs kept *)
Validated == loop.stage = "train_end"

(* C15: validation is the same as test in the three Lightning modules: for *)
(* every batch validation_step returns the value test_step returns for     *)
(* that batch; validation_epoch_end logs what test_epoch_end logs for the  *)
(* same outputs, under the keys test_loss and, where present, test_acc;    *)
(* and val_dataloader is test_dataloader: the CIFAR10 test split,          *)
(* unshuffled, with the configured batch size and the same collate         *)
(* function.                                                               *)
C15_ValidationIsTest ==
    /\ Validating =>
          \A i \in 1..Len(loop.outputs) :
              loop.outputs[i] =
                  test_step(lit, Collate(TestDataloader,
                                         BatchIds(TestDataloader, loop.order, i - 1)), i - 1)
    /\ Validated =>
          /\ trainer.logged[Len(trainer.logged)].stage = "validate"
          /\ trainer.logged[Len(trainer.logged)].metrics = test_epoch_end(lit, loop.outputs)
          /\ Keys(trainer.logged[Len(trainer.logged)].metrics) =
                IF notebook = "colorize" THEN <<"test_loss">> ELSE <<"test_loss", "test_acc">>
    /\ Validating \/ Validated =>
          /\ loop.loader = TestDataloader
          /\ ~loop.loader.dataset.train
          /\ ~loop.loader.shuffle
          /\ loop.loader.batch_size = args.batch_size

(* the MLP notebook has validated during fit and then tested: the test     *)
(* pass logs the metrics of the last validation pass, which precede the    *)
(* train_loss of the last epoch                                            *)
C15_Witness ==
    /\ notebook = "mlp" /\ pc = "tested"
    /\ Len(trainer.logged) >= 3
    /\ trainer.logged[Len(trainer.logged)].stage = "test"
    /\ trainer.logged[Len(trainer.logged) - 1].stage = "train"
    /\ trainer.logged[Len(trainer.logged) - 2].stage = "validate"
    /\ trainer.logged[Len(trainer.logged)].metrics =
          trainer.logged[Len(trainer.logged) - 2].metrics

(* every call of the Trainer that precedes wandb.finish() in the main      *)
(* sequence has returned                                                   *)
TrainerCallsReturned == trainer.fitted /\ (notebook = "mlp" => trainer.tested)

(* C16: the main sequences of the colorization and MLP notebooks handle no *)
(* failure: wandb.finish() is executed only after Trainer.fit and, in the  *)
(* MLP notebook, Trainer.test have returned normally; when one of them     *)
(* raises, the script ends with the exception and wandb.finish() is not    *)
(* executed.                                                               *)
C16_FinishOnlyAfterReturn ==
    notebook \in {"colorize", "mlp"} =>
        /\ wandb.finished => pc = "done" /\ TrainerCallsReturned
        /\ pc = "raised" => ~wandb.finished /\ ~TrainerCallsReturned

(* trainer.test of the MLP notebook has raised after fit returned *)
C16_Witness ==
    /\ notebook = "mlp" /\ pc = "raised"
    /\ trainer.fitted /\ ~trainer.tested
    /\ ~wandb.finished

====
